---- MODULE Spec2Model ----
(***************************************************************************)
(* Model of the two authentication views of src/authentication.py:         *)
(* signup (lines 12-33) and login (lines 37-56), run by concurrent         *)
(* request workers against one shared User table.                          *)
(*                                                                         *)
(* Python strings are sequences of one-character strings; None is a        *)
(* sequence holding one token that is not a character.  A view is cut into *)
(* atomic steps at its database accesses: everything between two accesses  *)
(* only touches the locals of the invocation.                              *)
(***************************************************************************)
EXTENDS Integers, Sequences, FiniteSets, TLC

\* Bounds of the model.
MaxReq == 3       \* invocations started in one behaviour
NumProcs == 2     \* request workers running concurrently

Procs == 1..NumProcs

\* ------------------------------------------------------------------------
\* Values
\* ------------------------------------------------------------------------
None == <<"None">>

Usernames == {<<"a", "l">>, <<"A", "l">>}
Passwords == {<<"p", "w">>, <<"p", "W">>}
Emails == {<<"e">>}
Salts == {"s1", "s2"}

\* What request.data.get(key) can return: a string, the empty string, or
\* None when the key is absent.
FieldValues(S) == S \cup {<<>>, None}

\* Python truthiness of `not x` for a string or None.
Falsy(x) == x = None \/ Len(x) = 0

HTTP_200_OK == 200
HTTP_201_CREATED == 201
HTTP_400_BAD_REQUEST == 400
HTTP_401_UNAUTHORIZED == 401

NoBody == [none |-> TRUE]
NoUser == [id |-> 0, username |-> None, password |-> None, email |-> None]

\* ------------------------------------------------------------------------
\* Password hasher (django.contrib.auth.hashers)
\* ------------------------------------------------------------------------
Algorithm == "pbkdf2_sha256"

\* The digest as a symbolic term of the password and the salt.
pbkdf2(password, salt) == <<"pbkdf2(">> \o password \o <<",", salt, ")">>

\* A mutant of make_password: the password is kept as it was given.
make_password_plain(password, salt) == password

\* make_password(password): "<algorithm>$<salt>$<digest>" with a fresh salt.
make_password(password, salt) == <<Algorithm, salt>> \o pbkdf2(password, salt)

\* A mutant of check_password: every password matches.
check_password_any(password, encoded) == TRUE

\* user.check_password(password): recompute the digest with the stored
\* salt; an unusable or unrecognised encoding matches nothing.
check_password(password, encoded) ==
    /\ password # None
    /\ encoded # None
    /\ Len(encoded) >= 2
    /\ encoded[1] = Algorithm
    /\ encoded = <<Algorithm, encoded[2]>> \o pbkdf2(password, encoded[2])

\* ------------------------------------------------------------------------
\* Token issuer (rest_framework_simplejwt.tokens)
\* ------------------------------------------------------------------------
\* A mutant of for_user: the token carries no unique identifier.
for_user_no_jti(user, uuid) ==
    [token_type |-> "refresh", user_id |-> user.id, jti |-> 0]

\* RefreshToken.for_user(user): a refresh token for the user's id with a
\* jti drawn from uuid4; uuid counts the draws made so far.
for_user(user, uuid) ==
    [token_type |-> "refresh", user_id |-> user.id, jti |-> uuid + 1]

\* refresh.access_token: the claims of the refresh token with its own type
\* and its own jti.
access_token(refresh, uuid) ==
    [token_type |-> "access", user_id |-> refresh.user_id, jti |-> uuid + 2]

\* str(token): the signed encoding of the claims.
str(token) == [alg |-> "HS256", payload |-> token, signature |-> TRUE]

\* The body of a response that carries a token pair.
TokenBody(user, uuid) ==
    [refresh |-> str(for_user(user, uuid)),
     access |-> str(access_token(for_user(user, uuid), uuid))]

\* ------------------------------------------------------------------------
\* The User table (django.contrib.auth.models.User, username unique)
\* ------------------------------------------------------------------------
\* A mutant of exists: the check finds nothing.
exists_never(table, username) == FALSE

\* User.objects.filter(username=username).exists(): exact match.
exists(table, username) ==
    \E i \in 1..Len(table) : table[i].username = username

\* User.objects.get(username=username): exact match; NoUser stands for
\* DoesNotExist.
get(table, username) ==
    IF \E i \in 1..Len(table) : table[i].username = username
    THEN table[CHOOSE i \in 1..Len(table) : table[i].username = username]
    ELSE NoUser

\* The row an INSERT adds: the next value of the id sequence is its key.
NewRow(table, username, password, email) ==
    [id |-> Len(table) + 1, username |-> username,
     password |-> password, email |-> email]

\* A mutant of create: no unique constraint on username.
create_no_constraint(table, username, password, email) ==
    [ok |-> TRUE,
     table |-> Append(table, NewRow(table, username, password, email)),
     user |-> NewRow(table, username, password, email)]

\* A mutant of create: a row that has the username is overwritten.
create_upsert(table, username, password, email) ==
    IF \E i \in 1..Len(table) : table[i].username = username
    THEN LET i == CHOOSE j \in 1..Len(table) : table[j].username = username
             row == [table[i] EXCEPT !.password = password, !.email = email]
         IN [ok |-> TRUE, table |-> [table EXCEPT ![i] = row], user |-> row]
    ELSE [ok |-> TRUE,
          table |-> Append(table, NewRow(table, username, password, email)),
          user |-> NewRow(table, username, password, email)]

\* User.objects.create(username=, password=, email=): one INSERT; the
\* unique constraint on username makes it fail with IntegrityError when a
\* row with that username is there.
create(table, username, password, email) ==
    IF \E i \in 1..Len(table) : table[i].username = username
    THEN [ok |-> FALSE, table |-> table, user |-> NoUser]
    ELSE [ok |-> TRUE,
          table |-> Append(table, NewRow(table, username, password, email)),
          user |-> NewRow(table, username, password, email)]

\* ------------------------------------------------------------------------
\* The views' conditions and responses
\* ------------------------------------------------------------------------
\* A mutant of SignupMissing: the email is not required.
SignupMissing_no_email(username, password, email) ==
    Falsy(username) \/ Falsy(password)

\* signup, line 17
SignupMissing(username, password, email) ==
    Falsy(username) \/ Falsy(password) \/ Falsy(email)

\* A mutant of LoginMissing: the password is not required.
LoginMissing_no_password(username, password) == Falsy(username)

\* login, line 41
LoginMissing(username, password) == Falsy(username) \/ Falsy(password)

SignupMissingResponse ==
    [status |-> HTTP_400_BAD_REQUEST,
     body |-> [error |-> "Please provide all required fields."]]

UsernameExistsResponse ==
    [status |-> HTTP_400_BAD_REQUEST,
     body |-> [error |-> "Username already exists."]]

LoginMissingResponse ==
    [status |-> HTTP_400_BAD_REQUEST,
     body |-> [error |-> "Please provide both username and password."]]

\* A mutant of DoesNotExistResponse: an unknown username is told apart.
DoesNotExistResponse_distinct ==
    [status |-> HTTP_401_UNAUTHORIZED,
     body |-> [error |-> "User does not exist."]]

DoesNotExistResponse ==
    [status |-> HTTP_401_UNAUTHORIZED,
     body |-> [error |-> "Invalid username or password."]]

WrongPasswordResponse ==
    [status |-> HTTP_401_UNAUTHORIZED,
     body |-> [error |-> "Invalid username or password."]]

\* The exception leaves the view: no Response is built, and the framework
\* answers with its server error.
IntegrityErrorResponse ==
    [status |-> 500, body |-> [fault |-> "IntegrityError"]]

\* ------------------------------------------------------------------------
\* State
\* ------------------------------------------------------------------------
VARIABLES
    store,       \* the User table: sequence of rows in insertion order
    req,         \* per worker: the invocation it runs, with its locals
    uuid,        \* number of uuid4 values drawn so far
    nreq,        \* invocations started so far
    plain,       \* history: plain[i] is the password given for row i
    issued,      \* history: token strings of the responses already sent
    registered,  \* history: <<username, password>> of the 201 responses sent
    created      \* history: the usernames answered with 201, in order

vars == <<store, req, uuid, nreq, plain, issued, registered, created>>

\* The username is in the table.
Registered(username) == \E i \in 1..Len(store) : store[i].username = username

Idle ==
    [kind |-> "idle", pc |-> "idle",
     username |-> None, password |-> None, email |-> None,
     user |-> NoUser, status |-> 0, body |-> NoBody,
     lookups |-> 0, known |-> FALSE, after |-> FALSE]

Init ==
    /\ store = <<>>
    /\ req = [r \in Procs |-> Idle]
    /\ uuid = 0
    /\ nreq = 0
    /\ plain = <<>>
    /\ issued = {}
    /\ registered = {}
    /\ created = <<>>

\* ------------------------------------------------------------------------
\* signup
\* ------------------------------------------------------------------------
\* Lines 13-18: read the three fields and require them.
SignupValidate(r) ==
    /\ req[r].kind = "idle"
    /\ nreq < MaxReq
    /\ \E username \in FieldValues(Usernames),
          password \in FieldValues(Passwords),
          email \in FieldValues(Emails) :
          LET started == [Idle EXCEPT !.kind = "signup",
                                      !.username = username,
                                      !.password = password,
                                      !.email = email,
                                      !.known = Registered(username)]
          IN req' = [req EXCEPT ![r] =
                IF SignupMissing(username, password, email)
                THEN [started EXCEPT !.pc = "done",
                                     !.status = SignupMissingResponse.status,
                                     !.body = SignupMissingResponse.body]
                ELSE [started EXCEPT !.pc = "exists"]]
    /\ nreq' = nreq + 1
    /\ UNCHANGED <<store, uuid, plain, issued, registered, created>>

\* Lines 20-21: the existence check.
SignupExists(r) ==
    /\ req[r].kind = "signup"
    /\ req[r].pc = "exists"
    /\ LET looked == [req[r] EXCEPT !.lookups = @ + 1]
       IN req' = [req EXCEPT ![r] =
             IF exists(store, req[r].username)
             THEN [looked EXCEPT !.pc = "done",
                                 !.status = UsernameExistsResponse.status,
                                 !.body = UsernameExistsResponse.body]
             ELSE [looked EXCEPT !.pc = "create"]]
    /\ UNCHANGED <<store, uuid, nreq, plain, issued, registered, created>>

\* Lines 23-33: the insert succeeds; the tokens are made and 201 returned.
SignupCreate(r) ==
    /\ req[r].kind = "signup"
    /\ req[r].pc = "create"
    /\ \E salt \in Salts :
          LET result == create(store, req[r].username,
                               make_password(req[r].password, salt),
                               req[r].email)
              user == result.user
          IN /\ result.ok
             /\ store' = result.table
             /\ plain' = IF Len(result.table) > Len(store)
                         THEN Append(plain, req[r].password)
                         ELSE plain
             /\ created' = Append(created, req[r].username)
             /\ req' = [req EXCEPT ![r] =
                   [req[r] EXCEPT !.pc = "done",
                                  !.user = user,
                                  !.lookups = @ + 1,
                                  !.status = HTTP_201_CREATED,
                                  !.body = TokenBody(user, uuid)]]
    /\ uuid' = uuid + 2
    /\ UNCHANGED <<nreq, issued, registered>>

\* Lines 23-27: the insert hits the unique constraint; IntegrityError is
\* caught nowhere in the view.
SignupCreateIntegrityError(r) ==
    /\ req[r].kind = "signup"
    /\ req[r].pc = "create"
    /\ ~create(store, req[r].username,
               make_password(req[r].password, CHOOSE salt \in Salts : TRUE),
               req[r].email).ok
    /\ req' = [req EXCEPT ![r] =
          [req[r] EXCEPT !.pc = "done",
                         !.lookups = @ + 1,
                         !.status = IntegrityErrorResponse.status,
                         !.body = IntegrityErrorResponse.body]]
    /\ UNCHANGED <<store, uuid, nreq, plain, issued, registered, created>>

\* ------------------------------------------------------------------------
\* login
\* ------------------------------------------------------------------------
\* Lines 38-42: read the two fields and require them.
LoginValidate(r) ==
    /\ req[r].kind = "idle"
    /\ nreq < MaxReq
    /\ \E username \in FieldValues(Usernames),
          password \in FieldValues(Passwords) :
          LET started == [Idle EXCEPT !.kind = "login",
                                      !.username = username,
                                      !.password = password,
                                      !.after =
                                          (<<username, password>> \in registered)]
          IN req' = [req EXCEPT ![r] =
                IF LoginMissing(username, password)
                THEN [started EXCEPT !.pc = "done",
                                     !.status = LoginMissingResponse.status,
                                     !.body = LoginMissingResponse.body]
                ELSE [started EXCEPT !.pc = "get"]]
    /\ nreq' = nreq + 1
    /\ UNCHANGED <<store, uuid, plain, issued, registered, created>>

\* Lines 44-56: the lookup, the password check, the tokens.
LoginGet(r) ==
    /\ req[r].kind = "login"
    /\ req[r].pc = "get"
    /\ LET user == get(store, req[r].username)
           looked == [req[r] EXCEPT !.pc = "done", !.user = user,
                                    !.lookups = @ + 1]
       IN IF user = NoUser
          THEN /\ req' = [req EXCEPT ![r] =
                     [looked EXCEPT !.status = DoesNotExistResponse.status,
                                    !.body = DoesNotExistResponse.body]]
               /\ uuid' = uuid
          ELSE IF ~check_password(req[r].password, user.password)
          THEN /\ req' = [req EXCEPT ![r] =
                     [looked EXCEPT !.status = WrongPasswordResponse.status,
                                    !.body = WrongPasswordResponse.body]]
               /\ uuid' = uuid
          ELSE /\ req' = [req EXCEPT ![r] =
                     [looked EXCEPT !.status = HTTP_200_OK,
                                    !.body = TokenBody(user, uuid)]]
               /\ uuid' = uuid + 2
    /\ UNCHANGED <<store, nreq, plain, issued, registered, created>>

\* ------------------------------------------------------------------------
\* The response leaves the worker
\* ------------------------------------------------------------------------
BodyTokens(body) ==
    IF DOMAIN body = {"refresh", "access"}
    THEN {body.refresh, body.access}
    ELSE {}

Return(r) ==
    /\ req[r].pc = "done"
    /\ issued' = issued \cup BodyTokens(req[r].body)
    /\ registered' =
          IF req[r].kind = "signup" /\ req[r].status = HTTP_201_CREATED
          THEN registered \cup {<<req[r].username, req[r].password>>}
          ELSE registered
    /\ req' = [req EXCEPT ![r] = Idle]
    /\ UNCHANGED <<store, uuid, nreq, plain, created>>

Next ==
    \E r \in Procs :
        \/ SignupValidate(r)
        \/ SignupExists(r)
        \/ SignupCreate(r)
        \/ SignupCreateIntegrityError(r)
        \/ LoginValidate(r)
        \/ LoginGet(r)
        \/ Return(r)

Spec == Init /\ [][Next]_vars

TypeOK ==
    /\ Len(plain) = Len(store)
    /\ nreq \in 0..MaxReq

\* ------------------------------------------------------------------------
\* Properties
\* ------------------------------------------------------------------------
Done(r) == req[r].pc = "done"

HasTokens(body) ==
    /\ DOMAIN body = {"refresh", "access"}
    /\ body.refresh # body.access
    /\ body.refresh.payload.token_type = "refresh"
    /\ body.access.payload.token_type = "access"

\* The token strings in the finished responses of the workers other than r.
OtherTokens(r) ==
    UNION {BodyTokens(req[q].body) : q \in Procs \ {r}}

\* Worker r takes the step of signup that runs the INSERT.
CreateStep(r) ==
    /\ req[r].kind = "signup"
    /\ req[r].pc = "create"
    /\ req'[r].pc = "done"

\* C1: a signup with three non-empty fields whose username is not in the
\* store when its existence check and its insert run returns 201 with a
\* refresh and an access token; a login that starts after that response,
\* with the same username and password, returns 200 with a token pair of
\* which no token was returned by any earlier signup or login.
C1_SignupThenLogin ==
    [][\A r \in Procs :
         /\ ( /\ req[r].kind = "signup"
              /\ req[r].pc = "exists"
              /\ req'[r] # req[r]
              /\ ~Registered(req[r].username) )
            => req'[r].pc = "create"
         /\ (CreateStep(r) /\ ~Registered(req[r].username))
            => /\ req'[r].status = 201
               /\ HasTokens(req'[r].body)
               /\ BodyTokens(req'[r].body) \cap (issued \cup OtherTokens(r)) = {}
         /\ ( /\ req[r].kind = "login"
              /\ req[r].after
              /\ req'[r].pc = "done"
              /\ req[r].pc # "done" )
            => /\ req'[r].status = 200
               /\ HasTokens(req'[r].body)
               /\ BodyTokens(req'[r].body) \cap (issued \cup OtherTokens(r)) = {}
      ]_vars

\* A login after the 201 of a signup, with the same credentials, has
\* finished with 200 while earlier token pairs are on record.
C1_Witness ==
    \E r \in Procs :
        /\ Done(r)
        /\ req[r].kind = "login"
        /\ req[r].after
        /\ req[r].status = 200
        /\ Cardinality(issued) >= 4

\* C2: a signup whose username is in the store when the request arrives
\* returns 400, whatever its password and email, and never 201.
C2_RegisteredUsername400 ==
    \A r \in Procs :
        (Done(r) /\ req[r].kind = "signup" /\ req[r].known)
        => req[r].status = 400

\* A signup for a registered username with all fields given has finished,
\* with a password other than the registered one.
C2_Witness ==
    \E r \in Procs :
        /\ Done(r)
        /\ req[r].kind = "signup"
        /\ req[r].known
        /\ ~Falsy(req[r].password)
        /\ ~Falsy(req[r].email)
        /\ \E i \in 1..Len(store) :
              /\ store[i].username = req[r].username
              /\ plain[i] # req[r].password

\* C3: the store never holds two rows with the same username, and at most
\* one signup for a username is answered with 201.
C3_UniqueUsername ==
    /\ \A i, j \in 1..Len(store) :
          store[i].username = store[j].username => i = j
    /\ \A i, j \in 1..Len(created) :
          created[i] = created[j] => i = j

\* Two signups for one username passed the existence check together; one
\* of them inserted and the other reached its insert afterwards.
C3_Witness ==
    \E r, q \in Procs :
        /\ r # q
        /\ req[r].kind = "signup" /\ Done(r) /\ req[r].status = 201
        /\ req[q].kind = "signup" /\ Done(q) /\ req[q].lookups = 2
        /\ req[q].username = req[r].username

\* C4: every invocation ends in 200 or 201 with tokens, or in 400 or 401
\* with an {error: message} payload.
C4_NoUnhandledFault ==
    \A r \in Procs :
        Done(r) =>
            \/ req[r].status \in {200, 201} /\ HasTokens(req[r].body)
            \/ req[r].status \in {400, 401} /\ DOMAIN req[r].body = {"error"}

\* C5: a login that fails because the username is unknown and a login that
\* fails because the password is wrong get the same response: 401 with
\* {error: "Invalid username or password."}.
C5_SameFailure ==
    \A r, q \in Procs :
        ( /\ Done(r) /\ req[r].kind = "login"
          /\ Done(q) /\ req[q].kind = "login"
          /\ ~Falsy(req[r].username) /\ ~Falsy(req[r].password)
          /\ ~Falsy(req[q].username) /\ ~Falsy(req[q].password)
          /\ req[r].status # 200 /\ req[q].status # 200 )
        => /\ req[r].status = req[q].status
           /\ req[r].body = req[q].body
           /\ req[r].status = 401
           /\ req[r].body = [error |-> "Invalid username or password."]

\* One login failed on an unknown username and another on a wrong password.
C5_Witness ==
    \E r, q \in Procs :
        /\ Done(r) /\ req[r].kind = "login" /\ req[r].lookups = 1
        /\ Done(q) /\ req[q].kind = "login" /\ req[q].lookups = 1
        /\ req[r].user = NoUser
        /\ req[q].user # NoUser
        /\ req[q].status # 200

\* C6: a login whose username or password is missing or empty returns 400
\* with {error: "Please provide both username and password."} and makes no
\* store lookup.
C6_LoginMissingNoLookup ==
    \A r \in Procs :
        ( /\ req[r].kind = "login"
          /\ Falsy(req[r].username) \/ Falsy(req[r].password) )
        => /\ req[r].lookups = 0
           /\ Done(r)
           /\ req[r].status = 400
           /\ req[r].body =
                  [error |-> "Please provide both username and password."]

\* A login for a registered username without a password has finished.
C6_Witness ==
    \E r \in Procs :
        /\ Done(r)
        /\ req[r].kind = "login"
        /\ Registered(req[r].username)
        /\ Falsy(req[r].password)

\* Worker r takes the step of login that runs the lookup.
GetStep(r) ==
    /\ req[r].kind = "login"
    /\ req[r].pc = "get"
    /\ req'[r].pc = "done"

\* C7: a login with non-empty username u and password p returns 200 if and
\* only if the store holds a row whose username is exactly u and p is
\* exactly the password given to the signup that created the row; every
\* other such login returns 401.
C7_LoginIffExactMatch ==
    [][\A r \in Procs :
         GetStep(r) =>
            /\ req'[r].status = 200 <=>
                  \E i \in 1..Len(store) :
                      /\ store[i].username = req[r].username
                      /\ plain[i] = req[r].password
            /\ req'[r].status # 200 => req'[r].status = 401
      ]_vars

\* One login got 200 and another, for a username that differs from a
\* registered one in the case of a letter only, got 401.
C7_Witness ==
    \E r, q \in Procs :
        /\ Done(r) /\ req[r].kind = "login" /\ req[r].status = 200
        /\ Done(q) /\ req[q].kind = "login" /\ req[q].status = 401
        /\ req[q].username # req[r].username
        /\ req[q].password = req[r].password
        /\ Len(store) = 1

\* C8: a row, once in the store, stays as it is: no step changes or
\* removes it, a step of a login leaves the whole store as it is, and the
\* password given to the signup that created the row stays on record.
C8_RowsImmutable ==
    [][/\ Len(store') >= Len(store)
       /\ \A i \in 1..Len(store) :
             /\ store'[i] = store[i]
             /\ plain'[i] = plain[i]
       /\ \A r \in Procs :
             (req'[r] # req[r] /\ "login" \in {req[r].kind, req'[r].kind})
             => store' = store
      ]_vars

\* A signup for a registered username, with another password, reached its
\* insert and has finished; the row is the first signup's.
C8_Witness ==
    \E r \in Procs :
        /\ Done(r)
        /\ req[r].kind = "signup"
        /\ req[r].lookups = 2
        /\ req[r].status # 201
        /\ \E i \in 1..Len(store) :
              /\ store[i].username = req[r].username
              /\ plain[i] # req[r].password

\* C9: the password field of every row is the hasher's output for the
\* password given at signup, and is not that password.
C9_PasswordHashed ==
    \A i \in 1..Len(store) :
        /\ store[i].password # plain[i]
        /\ \E salt \in Salts :
              store[i].password =
                  <<Algorithm, salt>> \o pbkdf2(plain[i], salt)

\* Two rows made from the same password are in the store.
C9_Witness == Len(store) = 2 /\ plain[1] = plain[2]

\* Some field of the invocation of worker r is missing or empty.
AnyFalsy(r) ==
    Falsy(req[r].username) \/ Falsy(req[r].password) \/ Falsy(req[r].email)

\* C10: a signup with a missing or empty field returns 400 with
\* {error: "Please provide all required fields."}, registered username or
\* not; a step of a signup that does not end in 201 leaves the store as it
\* is, and a signup answered with 400 carries no tokens; the store gains a
\* row only in the step of a signup that ends in 201.
C10_Signup400NoEffect ==
    [][/\ \A r \in Procs :
             /\ (req'[r].kind = "signup" /\ AnyFalsy(r)')
                => /\ req'[r].pc = "done"
                   /\ req'[r].status = 400
                   /\ req'[r].body =
                          [error |-> "Please provide all required fields."]
             /\ ( /\ req'[r] # req[r]
                  /\ req'[r].kind = "signup"
                  /\ req'[r].status # 201 )
                => store' = store
             /\ (req'[r].kind = "signup" /\ req'[r].status = 400)
                => BodyTokens(req'[r].body) = {}
       /\ store' # store
          => /\ Len(store') = Len(store) + 1
             /\ \E r \in Procs : CreateStep(r) /\ req'[r].status = 201
      ]_vars

\* A signup for a registered username with an empty email has finished
\* with 400.
C10_Witness ==
    \E r \in Procs :
        /\ Done(r)
        /\ req[r].kind = "signup"
        /\ req[r].known
        /\ req[r].email = <<>>
        /\ req[r].status = 400

====
